---- MODULE Spec2Model ----
(***************************************************************************)
(* Publication engine of the blog multi-agent system: the UploadingAgent   *)
(* saves one article (categories, post, links, tags, file records) inside  *)
(* one database session; PostRepository and FileRepository issue           *)
(* INSERT ... ON CONFLICT DO UPDATE statements keyed on natural keys.      *)
(*                                                                         *)
(* The relational store is a record of tables (sets of rows).  Each        *)
(* session keeps the rows it has written and not yet committed in tx[s];   *)
(* what a session reads is the committed store overlaid with its own       *)
(* writes (read committed).  A statement that writes a key another open    *)
(* session has written waits for that session to end (row lock of the      *)
(* unique index).                                                          *)
(***************************************************************************)
EXTENDS Integers, Sequences, FiniteSets, TLC

VARIABLES
    db,         \* committed store: record of tables
    tx,         \* tx[s]: rows written by session s, not yet committed
    pc,         \* pc[s]: position of the publication run by session s
    data,       \* data[s]: the payload of the publication
    cids,       \* cids[s]: category_ids resolved by the publication
    deepestId,  \* deepestId[s]: deepest_category_id of the publication
    articleId,  \* articleId[s]: id returned by upsert_post
    freshId,    \* freshId[s]: id generated inside upsert_post for this call
    fileIds,    \* fileIds[s]: file_ids returned by _save_file_records
    skipped,    \* skipped[s]: positions of all_files whose upsert raised
    result,     \* result[s]: the dict returned by execute
    cause,      \* cause[s]: the step in which the publication failed
    dbBefore,   \* dbBefore[s]: committed store when the session was opened
    nextId,     \* next identifier generate_id() will issue
    pubs,       \* number of publications started
    log,        \* the committed publications, in commit order
    lastCall,   \* the last repository call made outside a publication
    gen,        \* the identifier generator: clock, last tick, sequence, ids
    action,     \* action[s]: the action of the task execute was given
    s3          \* the keys of the objects put in the object store

vars == <<db, tx, pc, data, cids, deepestId, articleId, freshId, fileIds, skipped,
          result, cause, dbBefore, nextId, pubs, log, lastCall,
          gen, action, s3>>

-----------------------------------------------------------------------------
(* Bounds *)

MaxPubs == 3       \* publications started in a sequential run
MaxRacePubs == 2   \* publications started in a run with concurrent sessions
MaxCalls == 3      \* repository calls made one after the other
MaxIds == 4        \* identifiers issued by the generator
MaxTick == 3       \* milliseconds the generator's clock runs over

Sessions == {1, 2}

-----------------------------------------------------------------------------
(* Values *)

NoId == 0          \* None / NULL for an identifier
NoTitle == "NONE"  \* data.get("title") is None
NoSlug == "NONE"   \* slug=None / the payload has no "slug" key
NoStatus == "NONE" \* the payload has no "status" key
NoFile == [local_path |-> "", stored_name |-> "", s3_url |-> "", s3_key |-> ""]

Users == {1, 2}
Slugs == {"hello-world"}
Titles == {"Hello", NoTitle}
Contents == {"c1", "c2"}
Paths == {<<>>, <<"tech", "ai">>, <<"tech", "ml">>, <<"ml", "ai">>}
TagLists == {<<>>, <<"llm">>}

Thumb == [local_path |-> "in/cover.png", stored_name |-> "hello-world.png",
          s3_url |-> "cdn/hello-world.png", s3_key |-> "k/hello-world.png"]
Img1 == [local_path |-> "in/fig.png", stored_name |-> "hello-world-1.png",
         s3_url |-> "cdn/hello-world-1.png", s3_key |-> "k/hello-world-1.png"]

Img2 == [local_path |-> "in/plot.png", stored_name |-> "hello-world-2.png",
         s3_url |-> "cdn/hello-world-2.png", s3_key |-> "k/hello-world-2.png"]

(* An image of a type _get_content_type does not list, and one whose       *)
(* local path has no extension                                             *)
Bmp == [local_path |-> "in/draw.bmp", stored_name |-> "hello-world-1.bmp",
        s3_url |-> "cdn/hello-world-1.bmp", s3_key |-> "k/hello-world-1.bmp"]
NoExt == [local_path |-> "in/scan", stored_name |-> "hello-world-1.",
          s3_url |-> "cdn/hello-world-1.", s3_key |-> "k/hello-world-1."]

(* An image entry that has no local path *)
NoPathImg == [local_path |-> "", stored_name |-> "ghost.png",
              s3_url |-> "cdn/ghost.png", s3_key |-> "k/ghost.png"]

(* The same cover as a JPEG: the thumbnail's stored name is slug.ext *)
ThumbJpg == [local_path |-> "in/cover.jpg", stored_name |-> "hello-world.jpg",
             s3_url |-> "cdn/hello-world.jpg", s3_key |-> "k/hello-world.jpg"]

(* The files the upload collaborator hands over *)
Uploaded == {Thumb, Img1, Img2}

Thumbs == {NoFile, Thumb}
ImageLists == {<<>>, <<Img1>>, <<Img1, Img2>>}

EmptyStore == [posts |-> {}, categories |-> {}, post_categories |-> {},
               tags |-> {}, post_tags |-> {}, files |-> {}]

NoResult == [success |-> FALSE, article_id |-> NoId, category_ids |-> <<>>,
             category_id |-> NoId, error |-> "none"]

NoData == [user_id |-> 0, slug |-> "", title |-> NoTitle, content |-> "",
           status |-> "", category_id |-> NoId, categories |-> <<>>, tags |-> <<>>,
           thumbnail |-> NoFile, images |-> <<>>]

-----------------------------------------------------------------------------
(* The store: natural keys, a session's view, row locks *)

Key(table, r) ==
    CASE table = "posts" -> <<r.user_id, r.slug>>
      [] table = "categories" -> <<r.user_id, r.title>>
      [] table = "files" -> <<r.user_id, r.stored_name>>
      [] table = "post_categories" -> <<r.post_id, r.category_id>>
      [] table = "tags" -> <<r.title>>
      [] table = "post_tags" -> <<r.post_id, r.tag_title>>

(* Rows of base, those with the key of a row of over replaced by it *)
Overlay(table, base, over) ==
    {r \in base : \A w \in over : Key(table, w) # Key(table, r)} \cup over

Tables == {"posts", "categories", "post_categories", "tags", "post_tags",
           "files"}

Merge(base, w) == [t \in Tables |-> Overlay(t, base[t], w[t])]

View(s) == Merge(db, tx[s])

InSession == {"Prepared", "CategoriesResolved", "PostUpserted", "CatsLinked",
              "TagsLinked", "Linked"}
Terminal == {"Idle", "Rejected", "Aborted", "Returned"}

(* Another open session holds an uncommitted row with key k in the table *)
Locked(s, table, k) ==
    \E t \in Sessions \ {s} : \E w \in tx[t][table] : Key(table, w) = k

-----------------------------------------------------------------------------
(* PostRepository.upsert_post: INSERT ... ON CONFLICT (user_id, slug)      *)
(* DO UPDATE SET <mutable fields> RETURNING id.  The value is the row the   *)
(* statement leaves in the table; its id is what the call returns.         *)

upsert_post_new_id(posts, id, user_id, title, slug, content, category_id, status) ==
    [id |-> id, group_id |-> id, level |-> 0, parent_id |-> NoId,
     user_id |-> user_id, title |-> title, slug |-> slug, content |-> content,
     category_id |-> category_id, status |-> status]

upsert_post(posts, id, user_id, title, slug, content, category_id, status) ==
    LET ex == {r \in posts : r.user_id = user_id /\ r.slug = slug}
    IN  IF ex = {}
        THEN [id |-> id, group_id |-> id, level |-> 0, parent_id |-> NoId,
              user_id |-> user_id, title |-> title, slug |-> slug,
              content |-> content, category_id |-> category_id,
              status |-> status]
        ELSE [(CHOOSE r \in ex : TRUE) EXCEPT
                  !.title = title, !.content = content,
                  !.category_id = category_id, !.status = status]

(* UploadingAgent._get_content_type *)
get_content_type(ext) ==
    CASE ext = "jpg" -> "image/jpeg"
      [] ext = "jpeg" -> "image/jpeg"
      [] ext = "png" -> "image/png"
      [] ext = "gif" -> "image/gif"
      [] ext = "webp" -> "image/webp"
      [] ext = "svg" -> "image/svg+xml"
      [] OTHER -> "application/octet-stream"

(* Path(local_path).suffix.lstrip(".") on the local paths of the model *)
Suffix(local_path) ==
    CASE local_path = "in/cover.png" -> "png"
      [] local_path = "in/cover.jpg" -> "jpg"
      [] local_path = "in/fig.png" -> "png"
      [] local_path = "in/plot.png" -> "png"
      [] local_path = "in/draw.bmp" -> "bmp"
      [] OTHER -> ""

upsert_file_record_new_id(files, id, user_id, post_id, stored_name, stored_uri, s3_key, content_type, ext, is_thumbnail) ==
    [id |-> id, user_id |-> user_id, post_id |-> post_id,
     stored_name |-> stored_name, stored_uri |-> s3_key, s3_key |-> s3_key,
     content_type |-> content_type, ext |-> ext,
     is_thumbnail |-> is_thumbnail]

(* FileRepository.upsert_file_record: INSERT ... ON CONFLICT               *)
(* (user_id, stored_name) DO UPDATE ... RETURNING id.  The statement binds  *)
(* :stored_uri to the s3_key argument.                                     *)
upsert_file_record(files, id, user_id, post_id, stored_name, stored_uri, s3_key, content_type, ext, is_thumbnail) ==
    LET ex == {r \in files : r.user_id = user_id /\ r.stored_name = stored_name}
    IN  IF ex = {}
        THEN [id |-> id, user_id |-> user_id, post_id |-> post_id,
              stored_name |-> stored_name, stored_uri |-> s3_key,
              s3_key |-> s3_key, content_type |-> content_type, ext |-> ext,
              is_thumbnail |-> is_thumbnail]
        ELSE [(CHOOSE r \in ex : TRUE) EXCEPT
                  !.post_id = post_id, !.stored_uri = s3_key,
                  !.s3_key = s3_key, !.content_type = content_type,
                  !.ext = ext, !.is_thumbnail = is_thumbnail]

(* FileRepository.get_thumbnail: scalar_one_or_none over the rows of the    *)
(* post with is_thumbnail true: the row, none, or MultipleResultsFound      *)
get_thumbnail(files, post_id) ==
    LET rows == {f \in files : f.post_id = post_id /\ f.is_thumbnail}
    IN  IF rows = {} THEN [raised |-> FALSE, rows |-> {}]
        ELSE IF Cardinality(rows) = 1 THEN [raised |-> FALSE, rows |-> rows]
        ELSE [raised |-> TRUE, rows |-> {}]

-----------------------------------------------------------------------------
(* CategoryRepository.insert_category_hierarchy: for each name of the path, *)
(* in order, reuse the row of (user, name) when its parent is the previous  *)
(* node of this path, raise a conflict when its parent is another one, and  *)
(* create the row when there is none.                                      *)

RECURSIVE InsertFrom(_, _, _, _, _, _, _, _)
InsertFrom(cats, path, i, user_id, parent, group, nid, created) ==
    IF i > Len(path)
    THEN [conflict |-> FALSE, created |-> created, nid |-> nid,
          deepest |-> parent]
    ELSE LET ex == {c \in cats \cup created :
                        c.user_id = user_id /\ c.title = path[i]}
         IN  IF ex # {}
             THEN LET c == CHOOSE c \in ex : TRUE
                  IN  IF c.parent_id # parent
                      THEN [conflict |-> TRUE, created |-> created,
                            nid |-> nid, deepest |-> NoId]
                      ELSE InsertFrom(cats, path, i + 1, user_id, c.id,
                                      IF i = 1 THEN c.id ELSE group, nid,
                                      created)
             ELSE LET c == [id |-> nid,
                            group_id |-> IF i = 1 THEN nid ELSE group,
                            level |-> i - 1, parent_id |-> parent,
                            user_id |-> user_id, title |-> path[i]]
                  IN  InsertFrom(cats, path, i + 1, user_id, c.id, c.group_id,
                                 nid + 1, created \cup {c})

insert_category_hierarchy(cats, path, user_id, nid) ==
    InsertFrom(cats, path, 1, user_id, NoId, NoId, nid, {})

(* CategoryRepository.get_by_title: the row of (user, title), or none *)
get_by_title(cats, title, user_id) ==
    {c \in cats : c.user_id = user_id /\ c.title = title}

(* The loop of _resolve_category_hierarchy_with_session: one lookup per     *)
(* name, in path order; a name that is not found adds nothing.             *)
RECURSIVE ChainLeafFirst(_, _, _, _)
ChainLeafFirst(cats, path, i, user_id) ==
    IF i > Len(path) THEN <<>>
    ELSE LET cat == {c \in cats : c.user_id = user_id /\ c.title = path[i]}
         IN  ChainLeafFirst(cats, path, i + 1, user_id)
             \o (IF cat # {} THEN <<(CHOOSE c \in cat : TRUE).id>> ELSE <<>>)

RECURSIVE ChainFrom(_, _, _, _)
ChainFrom(cats, path, i, user_id) ==
    IF i > Len(path) THEN <<>>
    ELSE LET cat == get_by_title(cats, path[i], user_id)
         IN  (IF cat # {} THEN <<(CHOOSE c \in cat : TRUE).id>> ELSE <<>>)
             \o ChainFrom(cats, path, i + 1, user_id)

(* The rows the statements of session s read: committed rows overlaid with  *)
(* the session's own writes                                                *)
SnapshotPosts(s) == Merge(dbBefore[s], tx[s]).posts
SessionPosts(s) == View(s).posts

SnapshotCategories(s) == Merge(dbBefore[s], tx[s]).categories
SessionCategories(s) == View(s).categories

(* The rows get_by_title reads after insert_category_hierarchy has run:     *)
(* the repository is bound to the session that did the inserts             *)
CommittedLookup(s, created) == db.categories
SessionLookup(s, created) == SessionCategories(s) \cup created

(* deepest_id = category_ids[-1] if category_ids else None (line 722) *)
Deepest(ids) == IF ids = <<>> THEN NoId ELSE ids[Len(ids)]

resolve_uncategorized(s, categories, user_id, nid) ==
    LET path == IF categories = <<>> THEN <<"general">> ELSE categories
        h == insert_category_hierarchy(SessionCategories(s), path, user_id,
                                       nid)
        ids == IF h.deepest # NoId
               THEN ChainFrom(SessionLookup(s, h.created), path, 1, user_id)
               ELSE <<>>
    IN  [raised |-> h.conflict, created |-> h.created, nid |-> h.nid,
         category_ids |-> IF h.conflict THEN <<>> ELSE ids,
         deepest |-> IF h.conflict THEN NoId ELSE Deepest(ids)]

(* UploadingAgent._resolve_category_hierarchy_with_session *)
resolve_category_hierarchy(s, categories, user_id, nid) ==
    IF categories = <<>>
    THEN [raised |-> FALSE, created |-> {}, nid |-> nid,
          category_ids |-> <<>>, deepest |-> NoId]
    ELSE LET h == insert_category_hierarchy(SessionCategories(s), categories,
                                            user_id, nid)
             ids == IF h.deepest # NoId
                    THEN ChainFrom(SessionLookup(s, h.created), categories, 1,
                                   user_id)
                    ELSE <<>>
         IN  [raised |-> h.conflict, created |-> h.created, nid |-> h.nid,
              category_ids |-> IF h.conflict THEN <<>> ELSE ids,
              deepest |-> IF h.conflict THEN NoId ELSE Deepest(ids)]

(* Where the rows insert_category_hierarchy created go: the resolver runs  *)
(* its statements on the caller's session and does not commit              *)
OwnSession(s, created) ==
    [db |-> Merge(db, [EmptyStore EXCEPT !.categories = created]), tx |-> tx]
WithSession(s, created) ==
    [db |-> db, tx |-> [tx EXCEPT ![s].categories = @ \cup created]]

-----------------------------------------------------------------------------
(* UploadingAgent._save_file_records *)

ImagesThenThumbnail(thumbnail, images) ==
    [i \in 1..Len(images) |-> [file |-> images[i], is_thumbnail |-> FALSE]]
    \o (IF thumbnail # NoFile
        THEN <<[file |-> thumbnail, is_thumbnail |-> TRUE]>> ELSE <<>>)

ImagesOnly(thumbnail, images) ==
    [i \in 1..Len(images) |-> [file |-> images[i], is_thumbnail |-> FALSE]]

(* all_files: the thumbnail first, then the images in the order supplied *)
AllFiles(thumbnail, images) ==
    (IF thumbnail # NoFile
     THEN <<[file |-> thumbnail, is_thumbnail |-> TRUE]>> ELSE <<>>)
    \o [i \in 1..Len(images) |-> [file |-> images[i], is_thumbnail |-> FALSE]]

(* Positions of all_files the loop goes on to upsert when the upserts at    *)
(* the positions in failing raise: the except clause logs and continues.   *)
ProcessedUntilFailure(n, failing) ==
    {i \in 1..n : \A j \in failing : i < j}
Processed(n, failing) == (1..n) \ failing

RECURSIVE SaveFrom(_, _, _, _, _, _, _, _, _)
SaveFrom(files, all, i, done, post_id, user_id, nid, written, ids) ==
    IF i > Len(all)
    THEN [written |-> written, ids |-> ids, nid |-> nid]
    ELSE LET f == all[i].file
         IN  IF f.local_path = ""
             THEN SaveFrom(files, all, i + 1, done, post_id, user_id, nid,
                           written, ids)
             ELSE IF i \notin done
             THEN SaveFrom(files, all, i + 1, done, post_id, user_id, nid + 1,
                           written, ids)
             ELSE LET ext == Suffix(f.local_path)
                      row == upsert_file_record(
                                 Overlay("files", files, written), nid, user_id,
                                 post_id, f.stored_name,
                                 IF f.s3_url # "" THEN f.s3_url
                                 ELSE "cdn/images/" \o f.stored_name,
                                 f.s3_key, get_content_type(ext), ext,
                                 all[i].is_thumbnail)
                  IN  SaveFrom(files, all, i + 1, done, post_id, user_id,
                               nid + 1, Overlay("files", written, {row}),
                               Append(ids, row.id))

save_file_records(files, post_id, images, thumbnail, user_id, nid, failing) ==
    LET all == AllFiles(thumbnail, images)
    IN  SaveFrom(files, all, 1, Processed(Len(all), failing), post_id, user_id,
                 nid, {}, <<>>)

(* TagRepository.upsert_and_link_tags: one tags row per title, one          *)
(* post_tags row per (post, title)                                         *)
upsert_and_link_tags(post_id, tags) ==
    [tags |-> {[title |-> tags[i]] : i \in 1..Len(tags)},
     post_tags |-> {[post_id |-> post_id, tag_title |-> tags[i]] :
                        i \in 1..Len(tags)}]

link_post_to_deepest(post_id, category_ids) ==
    {[post_id |-> post_id, category_id |-> category_ids[i]] :
         i \in {Len(category_ids)} \ {0}}

link_post_to_ancestors(post_id, category_ids) ==
    {[post_id |-> post_id, category_id |-> category_ids[i]] :
         i \in 1..(Len(category_ids) - 1)}

(* UploadingAgent._link_post_to_categories: one INSERT ... ON CONFLICT      *)
(* (post_id, category_id) DO UPDATE SET updated_at per category id         *)
link_post_to_categories(post_id, category_ids) ==
    {[post_id |-> post_id, category_id |-> category_ids[i]] :
         i \in 1..Len(category_ids)}

-----------------------------------------------------------------------------
(* UploadingAgent._save_article, one action per database round trip *)

(* A category_id the caller put in the payload: the id of no category row *)
SuppliedCategoryId == 77

Base ==
    [user_id |-> 1, slug |-> "hello-world", title |-> "Hello",
     content |-> "c1", status |-> "public",
     category_id |-> SuppliedCategoryId,
     categories |-> <<"tech", "ai">>, tags |-> <<"llm">>,
     thumbnail |-> Thumb, images |-> <<>>]

(* Payloads that vary the post: owner, title (present or not), content,     *)
(* with or without categories                                              *)
PostPayloads ==
    {[Base EXCEPT !.user_id = u, !.title = t, !.content = c,
                  !.categories = p] :
         u \in Users, t \in Titles, c \in Contents,
         p \in {<<>>, <<"tech", "ai">>}}

(* Payloads that vary the category path *)
CategoryPayloads ==
    {[Base EXCEPT !.user_id = u, !.categories = p, !.thumbnail = NoFile] :
         u \in Users, p \in Paths}

(* Payloads that vary the files *)
FilePayloads ==
    {[Base EXCEPT !.categories = <<"tech">>, !.thumbnail = t, !.images = i] :
         t \in Thumbs, i \in ImageLists}

(* Payloads with an image whose extension is unlisted or empty *)
ExtensionPayloads ==
    {[Base EXCEPT !.categories = <<"tech">>, !.images = i] :
         i \in {<<Bmp>>, <<NoExt>>, <<Bmp, Img2>>}}

(* Payloads that vary the thumbnail's file type *)
ThumbnailPayloads ==
    {[Base EXCEPT !.categories = <<"tech">>, !.thumbnail = t, !.images = i] :
         t \in {Thumb, ThumbJpg}, i \in {<<>>, <<Img1>>}}

(* Payloads that vary the order of the images, with and without an entry    *)
(* that has no local path                                                   *)
OrderPayloads ==
    {[Base EXCEPT !.categories = <<"tech">>, !.thumbnail = t, !.images = i] :
         t \in Thumbs, i \in {<<Img2, Img1>>, <<NoPathImg, Img1>>}}

(* Payloads of publications that race on one (user_id, slug) *)
RacePayloads ==
    {[Base EXCEPT !.content = c, !.categories = p] :
         c \in Contents, p \in {<<>>, <<"tech">>}}

(* Payloads that vary the status: the three visibilities, a value that is  *)
(* none of them, and no status at all                                      *)
StatusPayloads ==
    {[Base EXCEPT !.status = st, !.categories = <<"tech">>] :
         st \in {"public", "private", "follower", "draft", NoStatus}}

(* Payloads with and without a slug *)
SlugPayloads ==
    {[Base EXCEPT !.slug = g, !.content = c, !.categories = p] :
         g \in {"hello-world", NoSlug}, c \in Contents,
         p \in {<<>>, <<"tech">>}}

(* generate_slug_from_title on the titles of the model *)
generate_slug_from_title(title) ==
    CASE title = "Hello" -> "hello"
      [] OTHER -> "untitled"

(* data.get("slug") or generate_slug_from_title(...) (lines 378 and 431) *)
PostSlug(d) ==
    IF d.slug = NoSlug THEN generate_slug_from_title(d.title) ELSE d.slug

status_as_given(d) == d.status

(* Lines 368-372: status_value, PUBLIC when absent or not a visibility *)
status_value(d) ==
    IF d.status \in {"public", "private", "follower"} THEN d.status
    ELSE "public"

(* UploadingAgent._replace_content_urls, on the images: an entry with a     *)
(* local path and an s3_url gets a cdn_url; another entry is kept as it is   *)
(* when there is no thumbnail dict, and makes line 527 test a dict for       *)
(* membership in the thumbnail dict, which raises TypeError, when there is   *)
(* one.  The order of the images is kept and the thumbnail is left out.      *)
Replaceable(img) == img.local_path # "" /\ img.s3_url # ""

replace_content_urls(images, thumbnail) ==
    [raised |-> /\ thumbnail # NoFile
                /\ \/ ~Replaceable(thumbnail)
                   \/ \E i \in 1..Len(images) : ~Replaceable(images[i]),
     images |-> [i \in 1..Len(images) |->
                    IF Replaceable(images[i])
                    THEN [local_path |-> images[i].local_path,
                          stored_name |-> images[i].stored_name,
                          s3_url |-> images[i].s3_url,
                          s3_key |-> images[i].s3_key,
                          cdn_url |-> images[i].s3_url]
                    ELSE images[i]]]

(* PostSchema over post_data: the required fields are present *)
PostSchema(d) == d.title # NoTitle

(* The try/except around PostSchema: a ValidationError returns a failure *)
ValidationIgnored(d) == FALSE
ValidationFails(d) == ~PostSchema(d)

Failure(error) == [NoResult EXCEPT !.error = error]

Reset(s) ==
    /\ cids' = [cids EXCEPT ![s] = <<>>]
    /\ deepestId' = [deepestId EXCEPT ![s] = NoId]
    /\ articleId' = [articleId EXCEPT ![s] = NoId]
    /\ freshId' = [freshId EXCEPT ![s] = NoId]
    /\ fileIds' = [fileIds EXCEPT ![s] = <<>>]
    /\ skipped' = [skipped EXCEPT ![s] = {}]
    /\ cause' = [cause EXCEPT ![s] = "none"]

(* Lines 358-405: replace the image URLs, validate the payload, then open   *)
(* the session                                                              *)
EnterSaveArticle(s, d) ==
    /\ Reset(s)
    /\ dbBefore' = [dbBefore EXCEPT ![s] = db]
    /\ LET r == replace_content_urls(d.images, d.thumbnail)
       IN  IF r.raised
           THEN /\ data' = [data EXCEPT ![s] = d]
                /\ pc' = [pc EXCEPT ![s] = "Rejected"]
                /\ result' = [result EXCEPT ![s] = Failure("TypeError")]
           ELSE /\ data' = [data EXCEPT ![s] = [d EXCEPT !.images = r.images]]
                /\ IF ValidationFails(d)
                   THEN /\ pc' = [pc EXCEPT ![s] = "Rejected"]
                        /\ result' = [result EXCEPT ![s] =
                                          Failure("validation")]
                   ELSE /\ pc' = [pc EXCEPT ![s] = "Prepared"]
                        /\ result' = [result EXCEPT ![s] = NoResult]

(* execute with action save_article (lines 64-65) *)
Begin(s, d) ==
    /\ pc[s] \in Terminal
    /\ pubs < MaxPubs
    /\ pubs' = pubs + 1
    /\ EnterSaveArticle(s, d)
    /\ UNCHANGED <<db, tx, nextId, log, lastCall, gen, action, s3>>

(* Leaving the scope of get_db_session on an exception: the session's     *)
(* uncommitted rows are dropped                                            *)
rollback(s) == [tx EXCEPT ![s] = EmptyStore]

(* An exception leaves the async with block: the session rolls back and    *)
(* execute returns success False with the error text                       *)
Abort(s, why) ==
    /\ pc' = [pc EXCEPT ![s] = "Aborted"]
    /\ tx' = rollback(s)
    /\ cause' = [cause EXCEPT ![s] = why]
    /\ result' = [result EXCEPT ![s] = Failure(why)]

(* An exception raised by insert_category_hierarchy is not handled in       *)
(* _resolve_category_hierarchy_with_session nor in _save_article           *)
ConflictSwallowed(r) == FALSE
ConflictPropagates(r) == r.raised

(* Lines 406-416 *)
ResolveCategories(s) ==
    /\ pc[s] = "Prepared"
    /\ LET r == resolve_category_hierarchy(s, data[s].categories,
                                           data[s].user_id, nextId)
           w == WithSession(s, r.created)
       IN  /\ \A c \in r.created :
                  ~Locked(s, "categories", Key("categories", c))
           /\ nextId' = r.nid
           /\ IF ConflictPropagates(r)
              THEN /\ Abort(s, "conflict")
                   /\ UNCHANGED <<db, cids, deepestId>>
              ELSE /\ db' = w.db
                   /\ tx' = w.tx
                   /\ cids' = [cids EXCEPT ![s] = r.category_ids]
                   /\ deepestId' = [deepestId EXCEPT ![s] = r.deepest]
                   /\ pc' = [pc EXCEPT ![s] = "CategoriesResolved"]
                   /\ UNCHANGED <<cause, result>>
    /\ UNCHANGED <<data, articleId, freshId, fileIds, skipped, dbBefore,
                   pubs, log, lastCall, gen, action, s3>>

(* category_id=deepest_category_id (line 434): the payload's category_id   *)
(* goes to PostSchema only                                                 *)
PayloadCategory(s) == data[s].category_id
PrimaryCategory(s) == deepestId[s]

UpsertPostBeforeResolve(s) ==
    /\ pc[s] = "Prepared"
    /\ LET row == upsert_post(SessionPosts(s), nextId, data[s].user_id,
                      data[s].title, PostSlug(data[s]), data[s].content,
                      NoId, status_value(data[s]))
       IN  /\ tx' = [tx EXCEPT ![s].posts = Overlay("posts", @, {row})]
           /\ articleId' = [articleId EXCEPT ![s] = row.id]
    /\ freshId' = [freshId EXCEPT ![s] = nextId]
    /\ nextId' = nextId + 1
    /\ pc' = [pc EXCEPT ![s] = "PostUpserted"]
    /\ UNCHANGED <<db, data, cids, deepestId, fileIds, skipped, result, cause, dbBefore,
                   pubs, log, lastCall, gen, action, s3>>

(* Lines 418-441 *)
UpsertPost(s) ==
    /\ pc[s] = "CategoriesResolved"
    /\ ~Locked(s, "posts", <<data[s].user_id, PostSlug(data[s])>>)
    /\ LET row == upsert_post(SessionPosts(s), nextId, data[s].user_id,
                      data[s].title, PostSlug(data[s]), data[s].content,
                      PrimaryCategory(s), status_value(data[s]))
       IN  /\ tx' = [tx EXCEPT ![s].posts = Overlay("posts", @, {row})]
           /\ articleId' = [articleId EXCEPT ![s] = row.id]
    /\ freshId' = [freshId EXCEPT ![s] = nextId]
    /\ nextId' = nextId + 1
    /\ pc' = [pc EXCEPT ![s] = "PostUpserted"]
    /\ UNCHANGED <<db, data, cids, deepestId, fileIds, skipped, result, cause, dbBefore,
                   pubs, log, lastCall, gen, action, s3>>

(* Lines 443-445 *)
LinkPostToCategories(s) ==
    /\ pc[s] = "PostUpserted"
    /\ LET rows == link_post_to_categories(articleId[s], cids[s])
       IN  /\ \A w \in rows :
                  ~Locked(s, "post_categories", Key("post_categories", w))
           /\ tx' = [tx EXCEPT ![s].post_categories = @ \cup rows]
    /\ pc' = [pc EXCEPT ![s] = "CatsLinked"]
    /\ UNCHANGED <<db, data, cids, deepestId, articleId, freshId, fileIds, skipped,
                   result, cause, dbBefore, nextId, pubs, log, lastCall, gen, action, s3>>

(* Lines 447-453 *)
LinkTags(s) ==
    /\ pc[s] = "CatsLinked"
    /\ LET w == upsert_and_link_tags(articleId[s], data[s].tags)
       IN  /\ \A t \in w.tags : ~Locked(s, "tags", Key("tags", t))
           /\ tx' = [tx EXCEPT ![s].tags = @ \cup w.tags,
                               ![s].post_tags = @ \cup w.post_tags]
    /\ pc' = [pc EXCEPT ![s] = "TagsLinked"]
    /\ UNCHANGED <<db, data, cids, deepestId, articleId, freshId, fileIds, skipped,
                   result, cause, dbBefore, nextId, pubs, log, lastCall, gen, action, s3>>

(* Lines 455-457; the upserts at the positions in failing raise *)
SaveFileRecords(s) ==
    /\ pc[s] = "TagsLinked"
    /\ \E failing \in SUBSET (1..Len(AllFiles(data[s].thumbnail,
                                              data[s].images))) :
         LET r == save_file_records(View(s).files, articleId[s],
                      data[s].images, data[s].thumbnail, data[s].user_id,
                      nextId, failing)
         IN  /\ \A w \in r.written : ~Locked(s, "files", Key("files", w))
             /\ tx' = [tx EXCEPT ![s].files = Overlay("files", @, r.written)]
             /\ fileIds' = [fileIds EXCEPT ![s] = r.ids]
             /\ skipped' = [skipped EXCEPT ![s] = failing]
             /\ nextId' = r.nid
    /\ pc' = [pc EXCEPT ![s] = "Linked"]
    /\ UNCHANGED <<db, data, cids, deepestId, articleId, freshId, result, cause,
                   dbBefore, pubs, log, lastCall, gen, action, s3>>

(* Lines 459-461: session.commit() *)
Commit(s) ==
    /\ pc[s] = "Linked"
    /\ db' = View(s)
    /\ tx' = [tx EXCEPT ![s] = EmptyStore]
    /\ pc' = [pc EXCEPT ![s] = "Committed"]
    /\ log' = Append(log, [data |-> data[s], article_id |-> articleId[s],
                           fresh_id |-> freshId[s],
                           category_ids |-> cids[s],
                           category_id |-> deepestId[s],
                           new_categories |-> tx[s].categories])
    /\ UNCHANGED <<data, cids, deepestId, articleId, freshId, fileIds, skipped, result,
                   cause, dbBefore, nextId, pubs, lastCall, gen, action, s3>>

(* Lines 463-493: slug = data["slug"] raises KeyError when the payload has  *)
(* no slug, and execute's except clause (127-128) turns it into a failure;  *)
(* otherwise the success result                                             *)
Return(s) ==
    /\ pc[s] = "Committed"
    /\ pc' = [pc EXCEPT ![s] = "Returned"]
    /\ result' = [result EXCEPT ![s] =
                      IF data[s].slug = NoSlug THEN Failure("KeyError: slug")
                      ELSE [success |-> TRUE, article_id |-> articleId[s],
                            category_ids |-> cids[s],
                            category_id |-> deepestId[s], error |-> "none"]]
    /\ UNCHANGED <<db, tx, data, cids, deepestId, articleId, freshId, fileIds, skipped,
                   cause, dbBefore, nextId, pubs, log, lastCall, gen, action, s3>>

(* session.execute raises inside _link_post_to_categories (lines 764-773): *)
(* no handler between the statement and execute's except clause            *)
LinkFailureSkipped(s) ==
    /\ pc' = [pc EXCEPT ![s] = "CatsLinked"]
    /\ cause' = [cause EXCEPT ![s] = "link"]
    /\ UNCHANGED <<tx, result>>
LinkFailure(s) == Abort(s, "link")

FailLink(s) ==
    /\ pc[s] = "PostUpserted"
    /\ cids[s] # <<>>
    /\ LinkFailure(s)
    /\ UNCHANGED <<db, data, cids, deepestId, articleId, freshId, fileIds, skipped,
                   dbBefore, nextId, pubs, log, lastCall, gen, action, s3>>

(* upsert_and_link_tags raises (line 452): no handler in _save_article *)
FailTags(s) ==
    /\ pc[s] = "CatsLinked"
    /\ data[s].tags # <<>>
    /\ Abort(s, "tag")
    /\ UNCHANGED <<db, data, cids, deepestId, articleId, freshId, fileIds, skipped,
                   dbBefore, nextId, pubs, log, lastCall, gen, action, s3>>

(* session.commit() raises (line 460) *)
FailCommit(s) ==
    /\ pc[s] = "Linked"
    /\ Abort(s, "commit")
    /\ UNCHANGED <<db, data, cids, deepestId, articleId, freshId, fileIds, skipped,
                   dbBefore, nextId, pubs, log, lastCall, gen, action, s3>>

(* The run is abandoned at an await inside the session scope (a lost        *)
(* connection, a cancelled task): the scope is left without a commit       *)
Cancel(s) ==
    /\ pc[s] \in InSession
    /\ Abort(s, "abandoned")
    /\ UNCHANGED <<db, data, cids, deepestId, articleId, freshId, fileIds, skipped,
                   dbBefore, nextId, pubs, log, lastCall, gen, action, s3>>

Step(s) ==
    \/ ResolveCategories(s)
    \/ UpsertPost(s)
    \/ LinkPostToCategories(s)
    \/ LinkTags(s)
    \/ SaveFileRecords(s)
    \/ Commit(s)
    \/ Return(s)
    \/ FailLink(s)
    \/ FailTags(s)
    \/ FailCommit(s)
    \/ Cancel(s)

-----------------------------------------------------------------------------
(* UploadingAgent.execute: the dispatch on the task's action, and the       *)
(* uploads of full_upload and upload_images                                 *)

(* Images as the caller of full_upload supplies them: a local path only *)
RawCover == [local_path |-> "in/cover.png", stored_name |-> "",
             s3_url |-> "", s3_key |-> ""]
RawFig == [local_path |-> "in/fig.png", stored_name |-> "",
           s3_url |-> "", s3_key |-> ""]

RawPayload(t, i) ==
    [Base EXCEPT !.categories = <<"tech">>, !.thumbnail = t, !.images = i]

Tasks ==
    {[action |-> "save_article", data |-> [Base EXCEPT !.categories = <<"tech">>]],
     [action |-> "upload_images", data |-> RawPayload(NoFile, <<RawFig>>)],
     [action |-> "publish", data |-> [Base EXCEPT !.categories = <<"tech">>]]}
    \cup {[action |-> "full_upload", data |-> RawPayload(t, i)] :
              t \in {NoFile, RawCover}, i \in {<<>>, <<RawFig>>}}

DispatchDefaultSave(a) ==
    IF a \in {"upload_images", "full_upload"} THEN a ELSE "save_article"

(* The if/elif chain of lines 61-125 *)
Dispatch(a) ==
    IF a \in {"upload_images", "save_article", "full_upload"} THEN a
    ELSE "unknown"

thumbnail_optional(d) == FALSE

(* if not thumbnail (line 70) *)
thumbnail_missing(d) == d.thumbnail = NoFile

RECURSIVE JoinPath(_)
JoinPath(parts) ==
    IF Len(parts) = 0 THEN ""
    ELSE IF Len(parts) = 1 THEN parts[1]
    ELSE parts[1] \o "/" \o JoinPath(Tail(parts))

(* Lines 172-176: [user_id]/[category]/.../[slug] *)
S3Prefix(ctx) ==
    JoinPath(<<ToString(ctx.user_id)>> \o ctx.categories \o <<ctx.slug>>)

(* upload_context (lines 81-85) *)
UploadContext(d) ==
    [user_id |-> d.user_id, categories |-> d.categories,
     slug |-> IF d.slug = NoSlug THEN "untitled" ELSE d.slug]

(* Lines 192-194 and 235-236: slug.ext for the thumbnail (idx 0),           *)
(* slug-idx.ext for the idx-th image                                        *)
StoredName(ctx, f, idx) ==
    IF idx = 0 THEN ctx.slug \o "." \o Suffix(f.local_path)
    ELSE ctx.slug \o "-" \o ToString(idx) \o "." \o Suffix(f.local_path)

(* thumbnail_data (206-213) and the entries of updated_images (249-257) *)
UploadedFile(ctx, f, idx) ==
    LET name == StoredName(ctx, f, idx)
        key == S3Prefix(ctx) \o "/" \o name
    IN  [local_path |-> f.local_path, stored_name |-> name,
         s3_url |-> "cdn/" \o key, s3_key |-> key]

(* The uploads of one task, in order: the thumbnail, then the images.       *)
(* present: the local files exist (resize_for_og raises on a thumbnail      *)
(* that does not; _upload_file_to_s3 returns a URL without uploading for a  *)
(* file that does not); fail_at: the position whose upload raises, or 0.    *)
upload_images(images, thumbnail, ctx, present, fail_at) ==
    LET n0 == IF thumbnail # NoFile THEN 1 ELSE 0
        n == n0 + Len(images)
        raised == \/ thumbnail # NoFile /\ ~present
                  \/ present /\ fail_at \in 1..n
        done == IF ~present THEN {}
                ELSE IF fail_at \in 1..n THEN 1..(fail_at - 1) ELSE 1..n
        up == [i \in 1..n |->
                  IF i <= n0 THEN UploadedFile(ctx, thumbnail, 0)
                  ELSE UploadedFile(ctx, images[i - n0], i - n0)]
    IN  [raised |-> raised,
         stored |-> {up[i].s3_key : i \in done},
         thumbnail |-> IF thumbnail # NoFile THEN up[1] ELSE NoFile,
         images |-> [i \in 1..Len(images) |-> up[i + n0]]]

(* Lines 57-125, up to the first await *)
BeginTask(s, t) ==
    /\ pc[s] \in Terminal
    /\ pubs < MaxPubs
    /\ pubs' = pubs + 1
    /\ action' = [action EXCEPT ![s] = t.action]
    /\ CASE Dispatch(t.action) = "save_article" ->
               EnterSaveArticle(s, t.data)
         [] Dispatch(t.action) = "full_upload" /\ thumbnail_missing(t.data) ->
               /\ Reset(s)
               /\ dbBefore' = [dbBefore EXCEPT ![s] = db]
               /\ data' = [data EXCEPT ![s] = t.data]
               /\ pc' = [pc EXCEPT ![s] = "Rejected"]
               /\ result' = [result EXCEPT ![s] =
                                 Failure("Thumbnail image is required")]
         [] Dispatch(t.action) = "unknown" ->
               /\ Reset(s)
               /\ dbBefore' = [dbBefore EXCEPT ![s] = db]
               /\ data' = [data EXCEPT ![s] = t.data]
               /\ pc' = [pc EXCEPT ![s] = "Rejected"]
               /\ result' = [result EXCEPT ![s] = Failure("Unknown action")]
         [] OTHER ->
               /\ Reset(s)
               /\ dbBefore' = [dbBefore EXCEPT ![s] = db]
               /\ data' = [data EXCEPT ![s] = t.data]
               /\ pc' = [pc EXCEPT ![s] = "Uploading"]
               /\ result' = [result EXCEPT ![s] = NoResult]
    /\ UNCHANGED <<db, tx, nextId, log, lastCall, gen, s3>>

(* Lines 62 and 87-122: the uploads; an exception ends in execute's except  *)
(* clause, upload_images returns its result, full_upload goes on to         *)
(* _save_article with the uploaded thumbnail and images                     *)
Upload(s) ==
    /\ pc[s] = "Uploading"
    /\ \E present \in BOOLEAN : \E fail_at \in 0..2 :
         LET full == action[s] = "full_upload"
             ctx == IF full THEN UploadContext(data[s])
                    ELSE [user_id |-> data[s].user_id, categories |-> <<>>,
                          slug |-> "untitled"]
             r == upload_images(data[s].images,
                                IF full THEN data[s].thumbnail ELSE NoFile,
                                ctx, present, fail_at)
         IN  /\ s3' = s3 \cup r.stored
             /\ IF r.raised
                THEN /\ Abort(s, "upload")
                     /\ UNCHANGED <<data, cids, deepestId, articleId,
                                    freshId, fileIds, skipped, dbBefore>>
                ELSE IF full
                THEN /\ EnterSaveArticle(s, [data[s] EXCEPT
                                                !.thumbnail = r.thumbnail,
                                                !.images = r.images])
                     /\ tx' = tx
                ELSE /\ pc' = [pc EXCEPT ![s] = "Returned"]
                     /\ result' = [result EXCEPT ![s] =
                                       [NoResult EXCEPT !.success = TRUE]]
                     /\ UNCHANGED <<tx, data, cids, deepestId, articleId,
                                    freshId, fileIds, skipped, cause,
                                    dbBefore>>
    /\ UNCHANGED <<db, nextId, pubs, log, lastCall, gen, action>>

BeginExecute == \E t \in Tasks : BeginTask(1, t)

NextExecute ==
    \/ BeginExecute
    \/ \E s \in Sessions : Upload(s)
    \/ \E s \in Sessions : Step(s)

NoIds == [now |-> 0, last |-> -1, seq |-> 0, issued |-> <<>>]

NoCall == [n |-> 0, op |-> "none", args |-> <<>>, repeated |-> FALSE]

Init ==
    /\ db = EmptyStore
    /\ tx = [s \in Sessions |-> EmptyStore]
    /\ pc = [s \in Sessions |-> "Idle"]
    /\ data = [s \in Sessions |-> NoData]
    /\ cids = [s \in Sessions |-> <<>>]
    /\ deepestId = [s \in Sessions |-> NoId]
    /\ articleId = [s \in Sessions |-> NoId]
    /\ freshId = [s \in Sessions |-> NoId]
    /\ fileIds = [s \in Sessions |-> <<>>]
    /\ skipped = [s \in Sessions |-> {}]
    /\ result = [s \in Sessions |-> NoResult]
    /\ cause = [s \in Sessions |-> "none"]
    /\ dbBefore = [s \in Sessions |-> EmptyStore]
    /\ nextId = 1
    /\ pubs = 0
    /\ log = <<>>
    /\ lastCall = NoCall
    /\ gen = NoIds
    /\ action = [s \in Sessions |-> "none"]
    /\ s3 = {}

(* One publication at a time, run by session 1 *)
BeginPost == \E d \in PostPayloads : Begin(1, d)
BeginCategories == \E d \in CategoryPayloads : Begin(1, d)
BeginFiles == \E d \in FilePayloads : Begin(1, d)
BeginExtensions == \E d \in ExtensionPayloads : Begin(1, d)
BeginStatus == \E d \in StatusPayloads : Begin(1, d)
BeginSlug == \E d \in SlugPayloads : Begin(1, d)
BeginThumbnails == \E d \in ThumbnailPayloads : Begin(1, d)
BeginOrder == \E d \in OrderPayloads : Begin(1, d)
(* Publications of the same document in concurrent sessions *)
BeginRace ==
    /\ pubs < MaxRacePubs
    /\ \E s \in Sessions : \E d \in RacePayloads : Begin(s, d)

Next == BeginPost \/ \E s \in Sessions : Step(s)
NextCategories == BeginCategories \/ \E s \in Sessions : Step(s)
NextFiles == BeginFiles \/ \E s \in Sessions : Step(s)
NextExtensions == BeginExtensions \/ \E s \in Sessions : Step(s)
NextStatus == BeginStatus \/ \E s \in Sessions : Step(s)
NextSlug == BeginSlug \/ \E s \in Sessions : Step(s)
NextThumbnails == BeginThumbnails \/ \E s \in Sessions : Step(s)
NextOrder == BeginOrder \/ \E s \in Sessions : Step(s)
NextRace == BeginRace \/ \E s \in Sessions : Step(s)

Spec == Init /\ [][Next]_vars
SpecCategories == Init /\ [][NextCategories]_vars
SpecFiles == Init /\ [][NextFiles]_vars
SpecExtensions == Init /\ [][NextExtensions]_vars
SpecStatus == Init /\ [][NextStatus]_vars
SpecSlug == Init /\ [][NextSlug]_vars
SpecThumbnails == Init /\ [][NextThumbnails]_vars
SpecOrder == Init /\ [][NextOrder]_vars
SpecExecute == Init /\ [][NextExecute]_vars
SpecRace == Init /\ [][NextRace]_vars

-----------------------------------------------------------------------------
(* The upserts called one after the other on one store, each call with a    *)
(* freshly generated id where the repository generates one                 *)

PostArgs ==
    [user_id : Users, slug : Slugs, title : {"Hello"}, content : Contents,
     category_id : {NoId, 1}]
FileArgs ==
    [user_id : {1}, post_id : {1, 2}, file : {Thumb, Img1},
     is_thumbnail : BOOLEAN]
LinkArgs == [post_id : {1, 2}, category_ids : {<<1>>, <<1, 2>>}]

Called(op, args) ==
    /\ lastCall.n < MaxCalls
    /\ lastCall' = [n |-> lastCall.n + 1, op |-> op, args |-> args,
                    repeated |-> lastCall.op = op /\ lastCall.args = args]
    /\ UNCHANGED <<tx, pc, data, cids, deepestId, articleId, freshId,
                   fileIds, skipped, result, cause, dbBefore, pubs, log, gen, action, s3>>

CallUpsertPost ==
    \E a \in PostArgs :
        LET row == upsert_post(db.posts, nextId, a.user_id, a.title, a.slug,
                               a.content, a.category_id, "public")
        IN  /\ db' = [db EXCEPT !.posts = Overlay("posts", @, {row})]
            /\ nextId' = nextId + 1
            /\ Called("upsert_post", a)

CallUpsertFileRecord ==
    \E a \in FileArgs :
        LET ext == Suffix(a.file.local_path)
            row == upsert_file_record(db.files, nextId, a.user_id, a.post_id,
                       a.file.stored_name, a.file.s3_url, a.file.s3_key,
                       get_content_type(ext), ext, a.is_thumbnail)
        IN  /\ db' = [db EXCEPT !.files = Overlay("files", @, {row})]
            /\ nextId' = nextId + 1
            /\ Called("upsert_file_record", a)

CallLinkPostToCategories ==
    \E a \in LinkArgs :
        /\ db' = [db EXCEPT !.post_categories =
                      @ \cup link_post_to_categories(a.post_id,
                                                     a.category_ids)]
        /\ nextId' = nextId
        /\ Called("link_post_to_categories", a)

NextUpserts ==
    CallUpsertPost \/ CallUpsertFileRecord \/ CallLinkPostToCategories

SpecUpserts == Init /\ [][NextUpserts]_vars

-----------------------------------------------------------------------------
(* FileRepository.set_thumbnail, called on a store whose file rows were     *)
(* written by upsert_file_record                                            *)

(* BaseRepository.update(id, {"is_thumbnail": value}): the row with that    *)
(* id gets the value; the call returns the row, or None when there is none  *)
update(files, id, value) ==
    [files |-> {IF f.id = id THEN [f EXCEPT !.is_thumbnail = value] ELSE f :
                    f \in files},
     found |-> \E f \in files : f.id = id]

(* Lines 229-237: clear the flag of every file of the post that has it,     *)
(* then set the flag of file_id; True when that row exists                  *)
set_thumbnail(files, post_id, file_id) ==
    LET cleared == {IF f.post_id = post_id /\ f.is_thumbnail
                    THEN [f EXCEPT !.is_thumbnail = FALSE] ELSE f :
                        f \in files}
        r == update(cleared, file_id, TRUE)
    IN  [files |-> r.files, returned |-> r.found]

SetThumbnailArgs == [post_id : {1, 2}, file_id : {1, 2, 3}]

CallSetThumbnail ==
    \E a \in SetThumbnailArgs :
        LET r == set_thumbnail(db.files, a.post_id, a.file_id)
        IN  /\ lastCall.n < MaxCalls
            /\ db' = [db EXCEPT !.files = r.files]
            /\ lastCall' = [n |-> lastCall.n + 1, op |-> "set_thumbnail",
                            args |-> a, repeated |-> FALSE,
                            returned |-> r.returned]
            /\ UNCHANGED <<tx, pc, data, cids, deepestId, articleId, freshId,
                           fileIds, skipped, result, cause, dbBefore, nextId,
                           pubs, log, gen, action, s3>>

NextSetThumbnail == CallUpsertFileRecord \/ CallSetThumbnail

SpecSetThumbnail == Init /\ [][NextSetThumbnail]_vars

-----------------------------------------------------------------------------
(* Post trees: PostRepository.create_post and create_comment add rows with  *)
(* session.add and flush (a plain INSERT, which raises on a duplicate id or *)
(* a duplicate (user_id, slug)); upsert_post is called on the same store.   *)

SuppliedPostId == 9

(* slug or f"comment-{comment_id}" (line 285) *)
CommentSlug(slug, id) == IF slug = NoSlug THEN "comment-" \o ToString(id) ELSE slug

(* The INSERT of a row raises IntegrityError *)
InsertRaises(posts, row) ==
    \E r \in posts : r.id = row.id \/ Key("posts", r) = Key("posts", row)

(* PostRepository.create_post: the row it adds *)
create_post(id, user_id, title, slug, content, category_id, status) ==
    [id |-> id, group_id |-> id, level |-> 0, parent_id |-> NoId,
     user_id |-> user_id, title |-> title, slug |-> slug, content |-> content,
     category_id |-> category_id, status |-> status]

create_comment_flat(posts, id, user_id, parent_id, title, content, slug) ==
    LET parent == CHOOSE p \in posts : p.id = parent_id
    IN  [id |-> id, group_id |-> parent.group_id, level |-> 1,
         parent_id |-> parent_id, user_id |-> user_id, title |-> title,
         slug |-> CommentSlug(slug, id), content |-> content,
         category_id |-> NoId, status |-> "public"]

(* PostRepository.create_comment: the row it adds under an existing parent *)
create_comment(posts, id, user_id, parent_id, title, content, slug) ==
    LET parent == CHOOSE p \in posts : p.id = parent_id
    IN  [id |-> id, group_id |-> parent.group_id, level |-> parent.level + 1,
         parent_id |-> parent_id, user_id |-> user_id, title |-> title,
         slug |-> CommentSlug(slug, id), content |-> content,
         category_id |-> NoId, status |-> "public"]

CreatePostArgs ==
    [user_id : {1}, slug : {"hello-world", "second"}, title : {"First"},
     content : {"c1"}, post_id : {NoId, SuppliedPostId}]
CommentArgs ==
    [user_id : {1}, parent_id : {1, 2, SuppliedPostId}, title : {"Re"},
     content : {"c1"}, slug : {NoSlug, "hello-world"}]

CallCreatePost ==
    \E a \in CreatePostArgs :
        LET id == IF a.post_id = NoId THEN nextId ELSE a.post_id
            row == create_post(id, a.user_id, a.title, a.slug, a.content,
                               NoId, "public")
        IN  /\ db' = IF InsertRaises(db.posts, row) THEN db
                     ELSE [db EXCEPT !.posts = @ \cup {row}]
            /\ nextId' = nextId + 1
            /\ Called("create_post", a)

(* Lines 272-274: a parent that is not found raises ValueError *)
CallCreateComment ==
    \E a \in CommentArgs :
        /\ IF \E p \in db.posts : p.id = a.parent_id
           THEN LET row == create_comment(db.posts, nextId, a.user_id,
                               a.parent_id, a.title, a.content, a.slug)
                IN  db' = IF InsertRaises(db.posts, row) THEN db
                          ELSE [db EXCEPT !.posts = @ \cup {row}]
           ELSE db' = db
        /\ nextId' = nextId + 1
        /\ Called("create_comment", a)

NextTree == CallCreatePost \/ CallCreateComment \/ CallUpsertPost

SpecTree == Init /\ [][NextTree]_vars

-----------------------------------------------------------------------------
(* generate_id: a timestamp in milliseconds, a node discriminator and a     *)
(* sequence counter per millisecond.  The counter restarts on a new tick;   *)
(* a call made when the counter is used up waits for the next tick; a call  *)
(* made while the clock is behind the last tick seen is refused.  Calls      *)
(* are serialized by the generator.                                        *)

SeqSize == 2       \* sequence values per millisecond
NodeSize == 2      \* node discriminators
Node == 1          \* this process's node discriminator

Compose(tick, seq) == (tick * NodeSize + Node) * SeqSize + seq

generate_id_following_clock(g) ==
    IF g.now # g.last
    THEN [issues |-> TRUE, last |-> g.now, seq |-> 0,
          id |-> Compose(g.now, 0)]
    ELSE IF g.seq + 1 < SeqSize
    THEN [issues |-> TRUE, last |-> g.last, seq |-> g.seq + 1,
          id |-> Compose(g.last, g.seq + 1)]
    ELSE [issues |-> FALSE, last |-> g.last, seq |-> g.seq, id |-> NoId]

generate_id(g) ==
    IF g.now > g.last
    THEN [issues |-> TRUE, last |-> g.now, seq |-> 0,
          id |-> Compose(g.now, 0)]
    ELSE IF g.now = g.last /\ g.seq + 1 < SeqSize
    THEN [issues |-> TRUE, last |-> g.last, seq |-> g.seq + 1,
          id |-> Compose(g.last, g.seq + 1)]
    ELSE [issues |-> FALSE, last |-> g.last, seq |-> g.seq, id |-> NoId]

OnlyGen ==
    UNCHANGED <<db, tx, pc, data, cids, deepestId, articleId, freshId,
                fileIds, skipped, result, cause, dbBefore, nextId, pubs, log,
                lastCall, action, s3>>

(* A caller obtains an identifier *)
GenerateId(c) ==
    /\ Len(gen.issued) < MaxIds
    /\ LET r == generate_id(gen)
       IN  /\ r.issues
           /\ gen' = [gen EXCEPT !.last = r.last, !.seq = r.seq,
                                 !.issued = Append(@, [id |-> r.id,
                                                       caller |-> c,
                                                       tick |-> r.last])]
    /\ OnlyGen

(* The wall clock advances by a millisecond *)
ClockTick ==
    /\ gen.now < MaxTick
    /\ gen' = [gen EXCEPT !.now = @ + 1]
    /\ OnlyGen

(* The wall clock is set back (a time correction) *)
ClockRegression ==
    /\ gen.now > 0
    /\ gen' = [gen EXCEPT !.now = @ - 1]
    /\ OnlyGen

NextIds ==
    \/ \E c \in Sessions : GenerateId(c)
    \/ ClockTick
    \/ ClockRegression

SpecIds == Init /\ [][NextIds]_vars

-----------------------------------------------------------------------------
(* Properties *)

SameDocument(d, e) == d.user_id = e.user_id /\ d.slug = e.slug
PostsOf(store, d) ==
    {r \in store.posts : r.user_id = d.user_id /\ r.slug = d.slug}
FirstOf(j) ==
    CHOOSE i \in 1..j :
        /\ SameDocument(log[i].data, log[j].data)
        /\ \A k \in 1..j : SameDocument(log[k].data, log[j].data) => i <= k

(* C1: every committed publication of a (user_id, slug) document returns    *)
(* the id of the row the first publication of that document created, a      *)
(* later publication never returns the id generated for its own call, and   *)
(* the posts table holds exactly one row for the document.                  *)
C1_SamePostId ==
    \A j \in 1..Len(log) :
        /\ log[j].article_id = log[FirstOf(j)].fresh_id
        /\ FirstOf(j) # j => log[j].article_id # log[j].fresh_id
        /\ Cardinality(PostsOf(db, log[j].data)) = 1
        /\ \A r \in PostsOf(db, log[j].data) : r.id = log[j].article_id

(* C1 witness: the identical payload has been committed twice *)
C1_Witness ==
    \E i, j \in 1..Len(log) : i < j /\ log[i].data = log[j].data

(* C2: while a publication is inside its session, and after it has been     *)
(* aborted for any reason, the committed store is what it was when the      *)
(* session was opened; an aborted publication keeps no pending row.         *)
C2_AllOrNothing ==
    \A s \in Sessions :
        /\ pc[s] \in InSession \cup {"Aborted"} => db = dbBefore[s]
        /\ pc[s] = "Aborted" => tx[s] = EmptyStore

(* C2 witness: the commit of a publication with categories, a tag and a     *)
(* file has failed                                                          *)
C2_Witness ==
    /\ pc[1] = "Aborted" /\ cause[1] = "commit"
    /\ cids[1] # <<>> /\ data[1].tags # <<>> /\ fileIds[1] # <<>>
    /\ db = dbBefore[1]

(* The order of the positions of a publication *)
Order ==
    {<<"Prepared", "CategoriesResolved">>,
     <<"CategoriesResolved", "PostUpserted">>,
     <<"PostUpserted", "CatsLinked">>, <<"CatsLinked", "TagsLinked">>,
     <<"TagsLinked", "Linked">>, <<"Linked", "Committed">>,
     <<"Committed", "Returned">>}
     \cup {<<p, "Aborted">> : p \in InSession}
     \cup {<<p, q>> : p \in Terminal, q \in {"Prepared", "Rejected"}}

Written(s, table) == tx'[s][table] \ tx[s][table]

OrderedStep(s) ==
    /\ pc'[s] # pc[s] => <<pc[s], pc'[s]>> \in Order
    /\ Written(s, "categories") # {} => pc[s] = "Prepared"
    /\ Written(s, "posts") # {} => pc[s] = "CategoriesResolved"
    /\ Written(s, "post_categories") # {} => pc[s] = "PostUpserted"
    /\ Written(s, "tags") \cup Written(s, "post_tags") # {} =>
           pc[s] = "CatsLinked"
    /\ Written(s, "files") # {} => pc[s] = "TagsLinked"
    /\ pc'[s] \notin InSession => tx'[s] = EmptyStore

(* C3: a publication moves Prepared, CategoriesResolved, PostUpserted,      *)
(* (links, tags, files) Linked, Committed in that order or to Aborted from  *)
(* any of the positions before Committed (the abort is enabled in each of  *)
(* them); category rows are written only                                   *)
(* by the first step, the post row only by the second, link, tag and file   *)
(* rows only after it; only the commit changes the committed store, and a   *)
(* finished publication holds no pending row.                               *)
C3_StateOrder ==
    /\ [](\A s \in Sessions : pc[s] \in InSession => ENABLED Cancel(s))
    /\ [][/\ \A s \in Sessions : OrderedStep(s)
          /\ db' # db => \E s \in Sessions :
                             pc[s] = "Linked" /\ pc'[s] = "Committed"]_vars

(* C3 witness: a publication with categories, a tag and a file has gone     *)
(* through every position and returned                                     *)
C3_Witness ==
    /\ pc[1] = "Returned" /\ result[1].success
    /\ cids[1] # <<>> /\ data[1].tags # <<>> /\ fileIds[1] # <<>>

PostIds(store) == {r.id : r \in store.posts}

(* C4: in every state reached by publications of one (user_id, slug) that   *)
(* run in concurrent sessions, each committed publication's document has    *)
(* exactly one post row, the id every committed publication got back is     *)
(* the id of that row, and the committed category links and file rows of    *)
(* the publications are keyed to it.                                        *)
C4_RaceOneRow ==
    /\ \A j \in 1..Len(log) :
           /\ Cardinality(PostsOf(db, log[j].data)) = 1
           /\ PostIds([posts |-> PostsOf(db, log[j].data)])
                  = {log[j].article_id}
           /\ \A i \in 1..Len(log[j].category_ids) :
                  [post_id |-> log[j].article_id,
                   category_id |-> log[j].category_ids[i]]
                      \in db.post_categories
    /\ \A l \in db.post_categories : l.post_id \in PostIds(db)
    /\ \A f \in db.files : f.post_id \in PostIds(db)
    /\ \A s \in Sessions :
           pc[s] = "Returned" =>
               {result[s].article_id} = PostIds([posts |-> PostsOf(db, data[s])])

(* C4 witness: a publication whose session was opened before any post      *)
(* existed came back with the id of the row another session committed      *)
(* meanwhile                                                               *)
C4_Witness ==
    \E s \in Sessions :
        /\ pc[s] = "Returned" /\ Len(log) >= 2
        /\ dbBefore[s].posts = {}
        /\ articleId[s] # freshId[s]
        /\ fileIds[s] # <<>>

(* A later name of the path has a row of the same user whose parent is not  *)
(* the row of the name before it in the path                               *)
LaterSegmentElsewhere(cats, path, user_id) ==
    \E i \in 2..Len(path) : \E c \in cats :
        /\ c.user_id = user_id /\ c.title = path[i]
        /\ \A q \in cats :
               q.user_id = user_id /\ q.title = path[i - 1] =>
                   c.parent_id # q.id

(* C5: when the resolving step runs on a path one of whose later names      *)
(* has a row under another parent, the publication is aborted with a        *)
(* failure result, no pending row is left and the committed categories      *)
(* are unchanged.                                                          *)
C5_ConflictLeavesStore ==
    [][\A s \in Sessions :
           (/\ pc[s] = "Prepared" /\ pc'[s] # "Prepared"
            /\ LaterSegmentElsewhere(View(s).categories, data[s].categories,
                                     data[s].user_id))
           => /\ pc'[s] = "Aborted"
              /\ ~result'[s].success
              /\ tx'[s] = EmptyStore
              /\ db' = db /\ db'.categories = dbBefore[s].categories]_vars

(* C5 witness: the path's first name had no row, its second name had a row  *)
(* under another parent, and the resolver raised the conflict              *)
C5_Witness ==
    /\ pc[1] = "Aborted" /\ cause[1] = "conflict"
    /\ Len(data[1].categories) = 2
    /\ get_by_title(db.categories, data[1].categories[1], data[1].user_id) = {}
    /\ LaterSegmentElsewhere(db.categories, data[1].categories,
                             data[1].user_id)

FileRowOf(store, s, i) ==
    LET all == AllFiles(data[s].thumbnail, data[s].images)
    IN  {f \in store.files :
             /\ f.user_id = data[s].user_id
             /\ f.stored_name = all[i].file.stored_name
             /\ f.post_id = articleId[s]
             /\ f.is_thumbnail = all[i].is_thumbnail}

(* C6: a committed publication some of whose file upserts raised has a      *)
(* file row for every other file of the payload, keyed to its post, one     *)
(* returned file id per file that did not raise, and its post row and       *)
(* category links are in the committed store.                              *)
C6_FileFailureSkipped ==
    \A s \in Sessions :
        pc[s] \in {"Committed", "Returned"} =>
            LET all == AllFiles(data[s].thumbnail, data[s].images)
            IN  /\ \A i \in (1..Len(all)) \ skipped[s] :
                       FileRowOf(db, s, i) # {}
                /\ Len(fileIds[s]) = Len(all) - Cardinality(skipped[s])
                /\ articleId[s] \in PostIds(db)
                /\ \A i \in 1..Len(cids[s]) :
                       [post_id |-> articleId[s], category_id |-> cids[s][i]]
                           \in db.post_categories

(* C6 witness: the thumbnail's upsert raised, the image after it was        *)
(* upserted, and the publication returned success                          *)
C6_Witness ==
    /\ pc[1] = "Returned" /\ result[1].success
    /\ skipped[1] = {1}
    /\ Len(AllFiles(data[1].thumbnail, data[1].images)) >= 2
    /\ FileRowOf(db, 1, 2) # {}
    /\ FileRowOf(db, 1, 1) = {}

(* C7: a failure of the tag step never aborts a publication that has tags  *)
(* (the failing tag is skipped and the publication commits).               *)
C7_TagFailureSkipped ==
    \A s \in Sessions :
        ~(pc[s] = "Aborted" /\ cause[s] = "tag" /\ data[s].tags # <<>>)

(* C8: a publication in which linking the post to a category failed is      *)
(* aborted with a failure result, keeps no pending row, and the committed   *)
(* store is what it was when the session was opened.                       *)
C8_LinkFailureAborts ==
    \A s \in Sessions :
        cause[s] = "link" =>
            /\ pc[s] = "Aborted"
            /\ ~result[s].success
            /\ tx[s] = EmptyStore
            /\ db = dbBefore[s]

(* C8 witness: linking failed after the session had created categories     *)
(* and written the post                                                    *)
C8_Witness ==
    /\ pc[1] = "Aborted" /\ cause[1] = "link"
    /\ cids[1] # <<>> /\ articleId[1] # NoId
    /\ dbBefore[1].categories = {}

(* C9: a publication whose payload has no title is rejected with a failure  *)
(* result without entering the session: it has no pending row, the          *)
(* committed store is unchanged, and no committed post lacks a title.       *)
C9_InvalidRejected ==
    /\ \A s \in Sessions :
           data[s] # NoData /\ data[s].title = NoTitle =>
               /\ pc[s] = "Rejected"
               /\ ~result[s].success /\ result[s].error = "validation"
               /\ tx[s] = EmptyStore
               /\ db = dbBefore[s]
    /\ \A r \in db.posts : r.title # NoTitle

(* C9 witness: a payload without a title was rejected after an earlier      *)
(* publication had committed                                               *)
C9_Witness ==
    /\ pc[1] = "Rejected" /\ data[1].title = NoTitle
    /\ db.posts # {}

(* C10: committed resolutions for one user give one name one id: a name     *)
(* common to two paths has the same id in both chains, at its position in   *)
(* each, so the same path gives the same chain; each chain has one id per   *)
(* name; and a path resolved before creates no category row.               *)
C10_ResolveIdempotent ==
    \A i, j \in 1..Len(log) :
        /\ Len(log[i].category_ids) = Len(log[i].data.categories)
        /\ log[i].data.user_id = log[j].data.user_id =>
               \A a \in 1..Len(log[i].data.categories) :
               \A b \in 1..Len(log[j].data.categories) :
                   log[i].data.categories[a] = log[j].data.categories[b] =>
                       log[i].category_ids[a] = log[j].category_ids[b]
        /\ (/\ i < j /\ log[i].data.user_id = log[j].data.user_id
            /\ log[i].data.categories = log[j].data.categories)
           => log[j].new_categories = {}

(* C10 witness: one user's path was committed twice, and a path sharing     *)
(* its first name was committed too                                        *)
C10_Witness ==
    \E i, j, k \in 1..Len(log) :
        /\ i < j
        /\ log[i].data = log[j].data /\ log[i].data.categories # <<>>
        /\ log[k].data.user_id = log[i].data.user_id
        /\ log[k].data.categories # log[i].data.categories
        /\ log[k].data.categories # <<>>
        /\ log[k].data.categories[1] = log[i].data.categories[1]

(* The chain ids names the rows of the path's names, in path order, in the  *)
(* categories cats, and deepest is its last element                        *)
ChainOf(cats, path, user_id, ids, deepest) ==
    /\ Len(ids) = Len(path)
    /\ \A i \in 1..Len(path) :
           \E c \in cats :
               c.id = ids[i] /\ c.title = path[i] /\ c.user_id = user_id
    /\ deepest = ids[Len(ids)]

(* C11: once a publication with a non-empty path of n names has resolved    *)
(* it, its chain has n ids, the i-th being the id of the category row of    *)
(* the i-th name of that user (in the rows the session sees, and in the     *)
(* committed rows once committed), and the deepest id is the last one.      *)
C11_ChainInOrder ==
    /\ \A s \in Sessions :
           (/\ pc[s] \in (InSession \ {"Prepared"}) \cup {"Committed", "Returned"}
            /\ data[s].categories # <<>>)
           => ChainOf(View(s).categories, data[s].categories,
                      data[s].user_id, cids[s], deepestId[s])
    /\ \A j \in 1..Len(log) :
           log[j].data.categories # <<>> =>
               ChainOf(db.categories, log[j].data.categories,
                       log[j].data.user_id, log[j].category_ids,
                       log[j].category_id)

(* C11 witness: a committed two-name path whose first name had a row and    *)
(* whose second name was created by the publication                        *)
C11_Witness ==
    \E j \in 1..Len(log) :
        /\ Len(log[j].data.categories) = 2
        /\ Cardinality(log[j].new_categories) = 1
        /\ log[j].category_ids[1] # log[j].category_ids[2]

(* C12: while a publication is committed and no later one has committed,    *)
(* the post row of its document has as category_id the last id of the       *)
(* chain the publication resolved (none for the empty path), whatever       *)
(* category_id the payload carried, and the category_id of the result is    *)
(* the one of the row.                                                      *)
C12_PrimaryIsDeepest ==
    \A s \in Sessions :
        pc[s] \in {"Committed", "Returned"} =>
            \A r \in PostsOf(db, data[s]) :
                /\ r.category_id = IF cids[s] = <<>> THEN NoId
                                   ELSE cids[s][Len(cids[s])]
                /\ data[s].categories = <<>> => r.category_id = NoId
                /\ pc[s] = "Returned" => result[s].category_id = r.category_id

(* C12 witness: a payload carrying a category_id was committed with a       *)
(* path, after a publication of the same document with another primary      *)
(* category; the row has neither the earlier nor the payload's category_id  *)
C12_Witness ==
    /\ pc[1] = "Returned" /\ result[1].success
    /\ data[1].category_id # NoId
    /\ \E r \in PostsOf(db, data[1]) :
           /\ r.category_id # data[1].category_id
           /\ r.category_id # NoId
           /\ \E j \in 1..Len(log) :
                  /\ SameDocument(log[j].data, data[1])
                  /\ log[j].category_id # r.category_id

(* The step of session s that leaves position p *)
Leaves(s, p) == pc[s] = p /\ pc'[s] # p /\ pc'[s] # "Aborted"

(* C13: a publication with an empty path is never kept waiting by the       *)
(* categories another session has written; its resolving step yields the    *)
(* empty chain and no deepest id, writes no category row and generates no   *)
(* id; its linking step writes no post_categories row; and its commit       *)
(* brings no category and no link and leaves its post row without primary   *)
(* category.                                                                *)
C13_EmptyPath ==
    /\ [](\A s \in Sessions :
             pc[s] = "Prepared" /\ data[s].categories = <<>> =>
                 ENABLED ResolveCategories(s))
    /\ [][\A s \in Sessions :
             data[s].categories = <<>> =>
                 /\ Leaves(s, "Prepared") =>
                        /\ cids'[s] = <<>> /\ deepestId'[s] = NoId
                        /\ tx'[s] = tx[s] /\ nextId' = nextId
                 /\ Leaves(s, "PostUpserted") => tx'[s] = tx[s]
                 /\ Leaves(s, "Linked") =>
                        /\ tx[s].categories = {}
                        /\ tx[s].post_categories = {}
                        /\ db'.categories = db.categories
                        /\ db'.post_categories = db.post_categories
                        /\ \A r \in PostsOf(db', data[s]) :
                               r.category_id = NoId]_vars

(* C13 witness: a publication with an empty path has returned success for   *)
(* a document another publication had committed under a category; the row   *)
(* has no primary category and the link of the earlier publication stays    *)
C13_Witness ==
    \E s \in Sessions :
        /\ pc[s] = "Returned" /\ result[s].success
        /\ data[s].categories = <<>>
        /\ result[s].category_id = NoId /\ result[s].category_ids = <<>>
        /\ \A r \in PostsOf(db, data[s]) : r.category_id = NoId
        /\ \E l \in db.post_categories : l.post_id = articleId[s]

(* The files of a payload with a thumbnail: stored name, whether it is the  *)
(* thumbnail, and its position in the order they are saved                  *)
PayloadFiles(d) ==
    {[name |-> d.thumbnail.stored_name, thumb |-> TRUE, pos |-> 1]}
    \cup {[name |-> d.images[i].stored_name, thumb |-> FALSE, pos |-> i + 1] :
              i \in 1..Len(d.images)}

FilesOfPost(store, id) == {f \in store.files : f.post_id = id}

HasFile(store, user_id, name) ==
    \E f \in store.files : f.user_id = user_id /\ f.stored_name = name

(* C14 as stated: a committed publication with a thumbnail and k images,    *)
(* none of whose file upserts failed, leaves exactly k+1 file rows for its   *)
(* post.                                                                    *)
C14_ExactlyKPlusOneRows ==
    \A s \in Sessions :
        (/\ pc[s] \in {"Committed", "Returned"}
         /\ data[s].thumbnail # NoFile /\ skipped[s] = {})
        => Cardinality(FilesOfPost(db, articleId[s]))
               = Len(data[s].images) + 1

(* C14 amended: a committed publication with a thumbnail and k images has   *)
(* one file row of its post per file of the payload whose upsert did not    *)
(* fail (k+1 rows and k+1 returned ids when none failed), the thumbnail's    *)
(* with is_thumbnail true and the others false; the files table has grown   *)
(* by the number of those files whose (user_id, stored_name) had no row      *)
(* before, so by none when all had one; rows of files of earlier            *)
(* publications of the post stay.                                           *)
C14_FileRowsUpserted ==
    \A s \in Sessions :
        (pc[s] \in {"Committed", "Returned"} /\ data[s].thumbnail # NoFile)
        => LET want == {p \in PayloadFiles(data[s]) : p.pos \notin skipped[s]}
               rows == {f \in FilesOfPost(db, articleId[s]) :
                            /\ f.user_id = data[s].user_id
                            /\ \E p \in want : p.name = f.stored_name}
               new == {p \in want :
                           ~HasFile(dbBefore[s], data[s].user_id, p.name)}
           IN  /\ Cardinality(rows) = Cardinality(want)
               /\ skipped[s] = {} =>
                      /\ Cardinality(rows) = Len(data[s].images) + 1
                      /\ Len(fileIds[s]) = Len(data[s].images) + 1
               /\ \A f \in rows :
                      f.is_thumbnail
                          = (f.stored_name = data[s].thumbnail.stored_name)
               /\ Cardinality(db.files)
                      = Cardinality(dbBefore[s].files) + Cardinality(new)
               /\ FilesOfPost(dbBefore[s], articleId[s]) \ rows
                      \subseteq FilesOfPost(db, articleId[s])

(* C14 witness: a payload with a thumbnail and two images was committed,    *)
(* then committed again unchanged with no failed upsert: three rows, none   *)
(* added by the second publication                                         *)
C14_Witness ==
    /\ pc[1] = "Returned" /\ skipped[1] = {}
    /\ data[1].thumbnail # NoFile /\ Len(data[1].images) = 2
    /\ \E i, j \in 1..Len(log) : i < j /\ j = Len(log)
                                  /\ log[i].data = log[j].data
    /\ Cardinality(db.files) = 3
    /\ Cardinality(dbBefore[1].files) = 3

(* C15: every committed file row has as stored_uri the s3_url supplied for  *)
(* the file of its stored name, and not its s3_key.                         *)
C15_StoredUriIsS3Url ==
    \A f \in db.files :
        /\ \E u \in Uploaded :
               u.stored_name = f.stored_name /\ f.stored_uri = u.s3_url
        /\ f.stored_uri # f.s3_key

IdsIn(store) ==
    {r.id : r \in store.posts} \cup {c.id : c \in store.categories}
    \cup {f.id : f \in store.files}

(* The post row r is still there with its identifier and natural key *)
PostKept(store, r) ==
    \E q \in store.posts :
        /\ q.id = r.id /\ q.group_id = r.group_id /\ q.level = r.level
        /\ q.parent_id = r.parent_id
        /\ q.user_id = r.user_id /\ q.slug = r.slug

FileKept(store, f) ==
    \E g \in store.files :
        g.id = f.id /\ g.user_id = f.user_id /\ g.stored_name = f.stored_name

(* C16: no step of a publication that is not an abort changes, in the rows  *)
(* the session sees or in the committed rows, the id, group_id, level,       *)
(* parent_id, user_id and slug of a post row or the id, user_id and          *)
(* stored_name of a file row; and an id generated by an upsert is stored     *)
(* only in a row whose natural key had no row before the upsert.            *)
C16_ConflictKeepsIdentity ==
    [][/\ \A r \in db.posts : PostKept(db', r)
       /\ \A f \in db.files : FileKept(db', f)
       /\ \A s \in Sessions :
              (pc[s] \in InSession /\ pc'[s] # "Aborted") =>
                  /\ \A r \in View(s).posts : PostKept(View(s)', r)
                  /\ \A f \in View(s).files : FileKept(View(s)', f)
       /\ \A s \in Sessions :
              Leaves(s, "CategoriesResolved") =>
                  (freshId'[s] \in IdsIn(View(s)')
                       => PostsOf(View(s), data[s]) = {})
       /\ \A s \in Sessions :
              Leaves(s, "TagsLinked") =>
                  \A id \in nextId..(nextId' - 1) :
                      \A f \in View(s)'.files :
                          f.id = id =>
                              ~HasFile(View(s), f.user_id, f.stored_name)]_vars

(* C16 witness: a publication has committed after its post upsert and a     *)
(* file upsert both hit an existing row: the ids it generated are nowhere   *)
C16_Witness ==
    /\ pc[1] = "Committed"
    /\ articleId[1] # freshId[1] /\ freshId[1] \notin IdsIn(db)
    /\ data[1].thumbnail # NoFile /\ skipped[1] = {}
    /\ HasFile(dbBefore[1], data[1].user_id, data[1].thumbnail.stored_name)
    /\ IdsIn(db) = IdsIn(dbBefore[1])

CategoriesOf(store, user_id, title) ==
    {c \in store.categories : c.user_id = user_id /\ c.title = title}

(* C18: whatever the interleaving of publications in concurrent sessions,   *)
(* the committed categories hold at most one row per (user_id, title), and   *)
(* every id in the chain of a committed publication is the id of the        *)
(* committed row of that user and name: publications that raced to create    *)
(* a name have the one surviving row's id in their chains.                  *)
C18_RaceOneCategory ==
    /\ \A c \in db.categories :
           Cardinality(CategoriesOf(db, c.user_id, c.title)) = 1
    /\ \A j \in 1..Len(log) :
           /\ Len(log[j].category_ids) = Len(log[j].data.categories)
           /\ \A i \in 1..Len(log[j].category_ids) :
                  \E c \in CategoriesOf(db, log[j].data.user_id,
                                        log[j].data.categories[i]) :
                      c.id = log[j].category_ids[i]

(* C18 witness: two sessions were opened while a name had no row, both      *)
(* resolved it and both returned success: one row, in both chains           *)
C18_Witness ==
    /\ \A s \in Sessions :
           /\ pc[s] = "Returned" /\ result[s].success
           /\ data[s].categories # <<>>
           /\ CategoriesOf(dbBefore[s], data[s].user_id,
                           data[s].categories[1]) = {}
    /\ data[1].categories = data[2].categories
    /\ cids[1] = cids[2]
    /\ Cardinality(db.categories) = 1

(* C19: the identifiers the generator has issued to its callers are         *)
(* pairwise distinct and increase in the order issued, whichever callers    *)
(* asked and however the clock moved; none is the null identifier.          *)
C19_IdsDistinctOrdered ==
    \A i, j \in 1..Len(gen.issued) :
        /\ gen.issued[i].id # NoId
        /\ i < j => gen.issued[i].id < gen.issued[j].id

(* C19 witness: all the identifiers of the bound were issued, two of them   *)
(* in one millisecond to different callers, and the clock is now behind the *)
(* last tick in which one was issued                                       *)
C19_Witness ==
    /\ Len(gen.issued) = MaxIds
    /\ \E i, j \in 1..Len(gen.issued) :
           /\ i < j /\ gen.issued[i].tick = gen.issued[j].tick
           /\ gen.issued[i].caller # gen.issued[j].caller
    /\ \E i \in 1..Len(gen.issued) :
           i < Len(gen.issued) /\ gen.now < gen.issued[i].tick

(* The extensions _get_content_type lists *)
Supported == {"jpg", "jpeg", "png", "gif", "webp", "svg"}

(* C20: in a committed publication every file whose extension is empty or   *)
(* not listed was skipped with a warning and has no file row.               *)
C20_BadExtensionSkipped ==
    \A s \in Sessions :
        pc[s] \in {"Committed", "Returned"} =>
            LET all == AllFiles(data[s].thumbnail, data[s].images)
            IN  \A i \in 1..Len(all) :
                    Suffix(all[i].file.local_path) \notin Supported =>
                        /\ i \in skipped[s]
                        /\ ~HasFile(db, data[s].user_id,
                                    all[i].file.stored_name)

(* Every level-0 row is its own root; every deeper row hangs one level      *)
(* below a row of the same group                                            *)
TreeShaped(posts) ==
    \A r \in posts :
        /\ r.level = 0 => r.parent_id = NoId /\ r.group_id = r.id
        /\ r.level >= 1 =>
               \E p \in posts :
                   /\ p.id = r.parent_id /\ p.level = r.level - 1
                   /\ p.group_id = r.group_id
        /\ \E g \in posts : g.id = r.group_id /\ g.level = 0

(* C21: after any sequence of create_post, upsert_post and create_comment   *)
(* every level-0 post is its own root with no parent, every deeper post has  *)
(* a parent one level up in the same group, whose group_id is the id of a    *)
(* level-0 row; and no call of upsert_post changes the id, group_id, level,  *)
(* parent_id or natural key of a row that was there.                        *)
C21_TreeWellFormed ==
    /\ [](TreeShaped(db.posts))
    /\ [][lastCall'.op = "upsert_post" /\ lastCall'.n # lastCall.n
             => \A r \in db.posts : PostKept(db', r)]_vars

(* C21 witness: upsert_post has hit the row of a comment (its title is the  *)
(* upsert's) that hangs under a root post                                   *)
C21_Witness ==
    /\ lastCall.op = "upsert_post"
    /\ \E r \in db.posts :
           /\ r.level = 1 /\ r.title = "Hello" /\ r.slug = "hello-world"
           /\ \E p \in db.posts : p.id = r.parent_id /\ p.level = 0

Visibilities == {"public", "private", "follower"}

(* C22: every post row, committed or pending, has a status among public,    *)
(* private and follower; a committed publication's post row has the         *)
(* payload's status when that is one of the three and public otherwise,     *)
(* and a payload with another status, or none, is not rejected.             *)
C22_StatusIsVisibility ==
    /\ \A r \in db.posts : r.status \in Visibilities
    /\ \A s \in Sessions :
           /\ \A r \in View(s).posts : r.status \in Visibilities
           /\ pc[s] \in {"Committed", "Returned"} =>
                  \A r \in PostsOf(db, data[s]) :
                      r.status = IF data[s].status \in Visibilities
                                 THEN data[s].status ELSE "public"
           /\ data[s].status \notin Visibilities => pc[s] # "Rejected"

(* C22 witness: a payload with status draft has returned success and its    *)
(* row is public, after a publication of the document as private            *)
C22_Witness ==
    /\ pc[1] = "Returned" /\ result[1].success
    /\ data[1].status = "draft"
    /\ \E r \in PostsOf(db, data[1]) : r.status = "public"
    /\ \E j \in 1..Len(log) : log[j].data.status = "private"

(* C23: a publication that has ended with a failure result has left the     *)
(* committed store as it was when the publication began, and every          *)
(* publication that committed has returned success, a payload without a     *)
(* slug included.                                                           *)
C23_FailureMeansNothingPersisted ==
    \A s \in Sessions :
        /\ (pc[s] \in Terminal \ {"Idle"} /\ ~result[s].success)
               => db = dbBefore[s]
        /\ pc[s] = "Returned" => result[s].success

PrimaryLinked(store) ==
    \A r \in store.posts :
        \/ r.category_id = NoId
        \/ [post_id |-> r.id, category_id |-> r.category_id]
               \in store.post_categories

(* C24: in every committed state each post has no primary category or has   *)
(* a post_categories row for its id and its category_id, whatever           *)
(* publications and re-publications with the same or another path came      *)
(* before; the rows a session is about to commit have it too.               *)
C24_PrimaryCategoryLinked ==
    /\ PrimaryLinked(db)
    /\ \A s \in Sessions : pc[s] = "Linked" => PrimaryLinked(View(s))

(* C24 witness: a post published under one path was re-published under     *)
(* another: its primary category is the second path's deepest, and it is    *)
(* linked                                                                   *)
C24_Witness ==
    \E i, j \in 1..Len(log) :
        /\ i < j /\ j = Len(log)
        /\ SameDocument(log[i].data, log[j].data)
        /\ log[i].category_id # log[j].category_id
        /\ log[i].category_id # NoId /\ log[j].category_id # NoId
        /\ \E r \in PostsOf(db, log[j].data) :
               /\ r.category_id = log[j].category_id
               /\ [post_id |-> r.id, category_id |-> r.category_id]
                      \in db.post_categories

LinkedCategories(store, post_id) ==
    {l.category_id : l \in {k \in store.post_categories : k.post_id = post_id}}

Range(seq) == {seq[i] : i \in 1..Len(seq)}

(* C25 as stated: after a committed publication the post_categories rows    *)
(* of its post are exactly the categories of the chain it resolved.         *)
C25_LinksEqualChain ==
    \A s \in Sessions :
        pc[s] \in {"Committed", "Returned"} =>
            LinkedCategories(db, articleId[s]) = Range(cids[s])

(* C25 amended: after a committed publication the post_categories rows of   *)
(* its post include every category of the chain it resolved, and the rows   *)
(* of a post are exactly the categories of the chains of all the committed  *)
(* publications of that post: links are added, never removed.               *)
C25_LinksAccumulate ==
    /\ \A s \in Sessions :
           pc[s] \in {"Committed", "Returned"} =>
               Range(cids[s]) \subseteq LinkedCategories(db, articleId[s])
    /\ \A r \in db.posts :
           LinkedCategories(db, r.id)
               = UNION {Range(log[j].category_ids) :
                            j \in {k \in 1..Len(log) :
                                       log[k].article_id = r.id}}
    /\ \A l \in db.post_categories : \E r \in db.posts : r.id = l.post_id

(* C25 witness: a post published under tech/ai was re-published under      *)
(* tech/ml: it is linked to the three categories                            *)
C25_Witness ==
    /\ pc[1] = "Returned" /\ result[1].success
    /\ Len(cids[1]) = 2
    /\ Cardinality(LinkedCategories(db, articleId[1])) = 3
    /\ Range(cids[1]) \subseteq LinkedCategories(db, articleId[1])

(* C26: in every committed state each post has at most one file row with    *)
(* is_thumbnail true, and get_thumbnail of a post never fails on several     *)
(* rows.                                                                     *)
C26_OneThumbnailPerPost ==
    \A r \in db.posts :
        /\ Cardinality({f \in FilesOfPost(db, r.id) : f.is_thumbnail}) <= 1
        /\ ~get_thumbnail(db.files, r.id).raised

Thumbnails(store, post_id) ==
    {f \in FilesOfPost(store, post_id) : f.is_thumbnail}

(* C27: a call of set_thumbnail(post_id, file_id) that returns True leaves   *)
(* exactly one file of post_id with is_thumbnail true, the file file_id,     *)
(* and changes the flag of no file of another post; a call that returns      *)
(* False changes no file's flag.                                             *)
C27_SetThumbnail ==
    [][(lastCall'.op = "set_thumbnail" /\ lastCall'.n # lastCall.n) =>
           LET a == lastCall'.args
           IN  IF lastCall'.returned
               THEN /\ \A f \in Thumbnails(db', a.post_id) : f.id = a.file_id
                    /\ Cardinality(Thumbnails(db', a.post_id)) = 1
                    /\ \A f \in db.files :
                           f.post_id # a.post_id => f \in db'.files
               ELSE db'.files = db.files]_vars

(* The entries of the payload in the order thumbnail, then images as        *)
(* supplied, and of those the ones that have a local path and whose upsert   *)
(* did not raise                                                            *)
Supplied(d) ==
    (IF d.thumbnail # NoFile
     THEN <<[name |-> d.thumbnail.stored_name,
             path |-> d.thumbnail.local_path, thumb |-> TRUE, pos |-> 1]>>
     ELSE <<>>)
    \o [i \in 1..Len(d.images) |->
           [name |-> d.images[i].stored_name, path |-> d.images[i].local_path,
            thumb |-> FALSE,
            pos |-> i + (IF d.thumbnail # NoFile THEN 1 ELSE 0)]]

Upserted(d, skip) ==
    LET Kept(e) == e.path # "" /\ e.pos \notin skip
    IN  SelectSeq(Supplied(d), Kept)

(* C28: once the linking step of a publication has saved its file records,  *)
(* the file ids it returned are, in order, those of the row of the          *)
(* thumbnail (when there is one) and then of the rows of the images in the   *)
(* order supplied, each row keyed to the post id the post upsert of this     *)
(* publication returned, which is the id of the document's post row; the     *)
(* rows among them that this step inserted have increasing ids; and no row   *)
(* exists for an entry without a local path.                                *)
C28_FilesInOrder ==
    \A s \in Sessions :
        pc[s] \in {"Linked", "Committed", "Returned"} =>
            LET up == Upserted(data[s], skipped[s])
                rows == View(s).files
            IN  /\ Len(fileIds[s]) = Len(up)
                /\ \A i \in 1..Len(up) :
                       \E f \in rows :
                           /\ f.id = fileIds[s][i]
                           /\ f.stored_name = up[i].name
                           /\ f.is_thumbnail = up[i].thumb
                           /\ f.post_id = articleId[s]
                /\ \A i, j \in 1..Len(up) :
                       (/\ i < j
                        /\ ~HasFile(dbBefore[s], data[s].user_id, up[i].name)
                        /\ ~HasFile(dbBefore[s], data[s].user_id, up[j].name))
                       => fileIds[s][i] < fileIds[s][j]
                /\ \A r \in PostsOf(View(s), data[s]) : r.id = articleId[s]
                /\ \A e \in Range(Supplied(data[s])) :
                       e.path = "" =>
                           ~HasFile(View(s), data[s].user_id, e.name)

(* C28 witness: a publication without thumbnail whose first image has no    *)
(* local path has returned success with the file id of its second image,    *)
(* after a publication with a thumbnail and two images committed its three   *)
(* files                                                                    *)
C28_Witness ==
    /\ pc[1] = "Returned" /\ result[1].success
    /\ data[1].thumbnail = NoFile
    /\ Len(data[1].images) = 2 /\ data[1].images[1].local_path = ""
    /\ Len(fileIds[1]) = 1
    /\ \E j \in 1..Len(log) :
           /\ log[j].data.thumbnail # NoFile
           /\ Cardinality(FilesOfPost(db, log[j].article_id)) = 3

(* C29: a full_upload task without a thumbnail ends at once with a failure  *)
(* result: it is never uploading nor inside a session, it holds no pending   *)
(* row, and the step that takes it changes neither the object store nor      *)
(* the committed store nor any pending row, and generates no id.             *)
C29_NoThumbnailNoWork ==
    /\ [](\A s \in Sessions :
             (action[s] = "full_upload" /\ data[s].thumbnail = NoFile) =>
                 /\ pc[s] = "Rejected"
                 /\ ~result[s].success /\ result[s].error # "none"
                 /\ tx[s] = EmptyStore)
    /\ [][\A s \in Sessions :
             (/\ pubs' # pubs /\ pc'[s] # pc[s]
              /\ action'[s] = "full_upload" /\ data'[s].thumbnail = NoFile)
             => /\ s3' = s3 /\ db' = db /\ tx' = tx /\ nextId' = nextId
                /\ pc'[s] = "Rejected"]_vars

(* C29 witness: a full_upload with an image and no thumbnail was refused    *)
(* after an earlier full_upload had uploaded its files and committed         *)
C29_Witness ==
    /\ action[1] = "full_upload" /\ data[1].thumbnail = NoFile
    /\ data[1].images # <<>>
    /\ pc[1] = "Rejected"
    /\ s3 # {} /\ db.posts # {} /\ db.files # {}

KnownActions == {"upload_images", "save_article", "full_upload"}

====
